---------------------------- MODULE Spec2Model ----------------------------
(***************************************************************************)
(* Model of the background-removal HTTP service (src/app.py).              *)
(*                                                                         *)
(* The process imports its segmentation backend once (app.py 11-27) and    *)
(* then serves four endpoints.  A worker takes one request, runs the whole *)
(* handler, and returns the response; nothing but BG_REMOVAL_METHOD        *)
(* survives a request.  The handlers only read BG_REMOVAL_METHOD, so       *)
(* running each handler as one atomic step loses no interleaving.          *)
(*                                                                         *)
(* Text is modelled as a sequence of one-character strings, an image as    *)
(* its mode, size and row-major pixel tuples.                              *)
(***************************************************************************)
EXTENDS Integers, Sequences, FiniteSets, TLC

VARIABLES
    pc,                 \* "startup" | "idle" | "responded"
    probes,             \* import attempts made at startup, with their outcome
    BG_REMOVAL_METHOD,  \* module global of app.py
    request,            \* the request being answered
    response            \* what the handler returned for it

vars == <<pc, probes, BG_REMOVAL_METHOD, request, response>>

---------------------------------------------------------------------------
(* Bounds of the explored inputs.                                          *)

\* longest background_color body (characters after the leading '#')
MaxColorLen == 8
\* widest small test image (height 1)
MaxWidth == 2
\* largest rows / cols value sent explicitly
MaxGrid == 2
\* largest photo_width / photo_height value sent explicitly
MaxPhoto == 2

---------------------------------------------------------------------------
(* Program constants.                                                      *)

\* app.py 49: inset of the GrabCut rectangle
GrabCutMargin == 10
\* app.py 224: grid margin
GridMargin == 20
DefaultCols == 4
DefaultRows == 4
DefaultPhotoWidth == 413
DefaultPhotoHeight == 531
DefaultColor == <<"#", "F", "F", "F", "F", "F", "F">>

Min(a, b) == IF a < b THEN a ELSE b


---------------------------------------------------------------------------
(* Data: pixels, images, uploads.                                          *)

\* RGBA pixels the test images are painted with: opaque, transparent, half
Palette == << <<255, 128, 7, 255>>, <<0, 64, 200, 0>>, <<10, 20, 30, 128>> >>

\* alpha values a segmentation result is sampled with (external model output)
MaskSamples == {0, 255}

NoImage == [mode |-> "none", width |-> 0, height |-> 0, px |-> <<>>]

\* a w x h image whose i-th pixel (row-major) is palette entry i+k
MkImage(mode, w, h, k) ==
    [mode |-> mode, width |-> w, height |-> h,
     px |-> [i \in 1..(w * h) |->
               LET p == Palette[((i - 1 + k) % Len(Palette)) + 1]
               IN  IF mode = "RGBA" THEN p ELSE <<p[1], p[2], p[3]>>]]

SmallImages ==
    {MkImage(m, w, 1, k) : m \in {"RGB", "RGBA"}, w \in 1..MaxWidth,
                           k \in 0..(Len(Palette) - 1)}

\* smallest side for which the GrabCut rectangle of app.py 50 is not empty
ClassifiableSide == 2 * GrabCutMargin + 1

LargeImages ==
    {MkImage(m, ClassifiableSide, ClassifiableSide, k) :
        m \in {"RGB", "RGBA"}, k \in {0}}

\* An uploaded image: the text of a JSON "image" field or the bytes of a
\* multipart file.  data_uri: the text starts "data:image/png;base64,";
\* b64: whether the base64 text is correctly padded; content: whether the
\* decoded bytes are an image Pillow identifies; img: that image.
NoPayload ==
    [data_uri |-> FALSE, b64 |-> "ok", content |-> "none", img |-> NoImage]

PngPayload(img, uri) ==
    [data_uri |-> uri, b64 |-> "ok", content |-> "png", img |-> img]

GarbagePayload(uri) ==
    [data_uri |-> uri, b64 |-> "ok", content |-> "garbage", img |-> NoImage]

BadBase64Payload(uri) ==
    [data_uri |-> uri, b64 |-> "badpadding", content |-> "garbage",
     img |-> NoImage]

\* multipart uploads to /remove-background (raw bytes, no base64)
FilePayloads ==
    {PngPayload(i, FALSE) : i \in SmallImages \cup LargeImages}
        \cup {GarbagePayload(FALSE)}

\* "image" values of the JSON endpoints
JsonPayloads ==
    {PngPayload(i, u) : i \in SmallImages, u \in BOOLEAN}
        \cup {GarbagePayload(u) : u \in BOOLEAN}
        \cup {BadBase64Payload(u) : u \in BOOLEAN}

NoGrid == [width |-> 0, height |-> 0, pastes |-> <<>>]

---------------------------------------------------------------------------
(* Library behaviour the handlers rely on.                                 *)

\* data['image'].split(',')[1] if ',' in data['image'] else data['image']
StripDataUri(p) == [p EXCEPT !.data_uri = FALSE]

\* base64.b64decode: raises binascii.Error on incorrect padding
\* (characters outside the alphabet, such as an unstripped "data:...,"
\* prefix, are discarded, which leaves bytes that are no image)
B64Decode(p) ==
    IF p.b64 # "ok" THEN [ok |-> FALSE, error |-> "binascii.Error", bytes |-> p]
    ELSE IF p.data_uri
         THEN [ok |-> TRUE, error |-> "", bytes |-> GarbagePayload(TRUE)]
         ELSE [ok |-> TRUE, error |-> "", bytes |-> p]

\* Image.open: raises UnidentifiedImageError on bytes that are no image
ImageOpen(p) ==
    IF p.content = "png" THEN [ok |-> TRUE, error |-> "", img |-> p.img]
    ELSE [ok |-> FALSE, error |-> "UnidentifiedImageError", img |-> NoImage]

\* Image.convert between RGB and RGBA: RGB gains alpha 255, RGBA drops alpha
ConvertPixel(p, mode) ==
    IF mode = "RGBA"
    THEN (IF Len(p) = 4 THEN p ELSE <<p[1], p[2], p[3], 255>>)
    ELSE <<p[1], p[2], p[3]>>

Convert(img, mode) ==
    [img EXCEPT !.mode = mode,
                !.px = [i \in DOMAIN img.px |-> ConvertPixel(img.px[i], mode)]]


---------------------------------------------------------------------------
(* Responses.                                                              *)

\* jsonify({...}) of a success, with the encoded picture or grid
Success(method, quality, img, grid, calls) ==
    [status |-> 200, body |-> "success", error |-> "", method |-> method,
     quality |-> quality, image |-> img, grid |-> grid, calls |-> calls]

\* jsonify({'error': msg}), status
Failure(status, msg, calls) ==
    [status |-> status, body |-> "error", error |-> msg, method |-> "",
     quality |-> "", image |-> NoImage, grid |-> NoGrid, calls |-> calls]

NoRequest ==
    [endpoint |-> "none", fields |-> {}, image |-> NoPayload,
     background_color |-> <<>>, cols |-> 0, rows |-> 0,
     photo_width |-> 0, photo_height |-> 0]

NoResponse == [Failure(0, "", <<>>) EXCEPT !.body = "none"]

\* dict.get(key, default) on the request's JSON body
Get(req, key, default) == IF key \in req.fields THEN req[key] ELSE default

---------------------------------------------------------------------------
(* Startup: backend selection, app.py 11-27.                               *)

\* the imports attempted, in order, with whether each succeeded;  cv2 is
\* imported only after rembg failed
ProbeOutcomes ==
    { << [module |-> "rembg", ok |-> TRUE] >> }
        \cup { << [module |-> "rembg", ok |-> FALSE],
                  [module |-> "cv2", ok |-> c] >> : c \in BOOLEAN }


\* the last assignment (app.py 27) missing: the initial None stays
SelectBackend_noneLeftUnset(ps) ==
    IF ps[1].ok THEN "rembg"
    ELSE IF ps[2].ok THEN "opencv"
    ELSE "None"

\* the value BG_REMOVAL_METHOD ends with after the given imports
SelectBackend(ps) ==
    IF ps[1].ok THEN "rembg"
    ELSE IF ps[2].ok THEN "opencv"
    ELSE "none"

Startup ==
    /\ pc = "startup"
    /\ \E ps \in ProbeOutcomes :
          /\ probes' = ps
          /\ BG_REMOVAL_METHOD' = SelectBackend(ps)
    /\ pc' = "idle"
    /\ UNCHANGED <<request, response>>

---------------------------------------------------------------------------
(* GET /health, app.py 92-99.                                              *)

HealthQuality(method) ==
    IF method = "rembg" THEN "HIGH (AI)"
    ELSE IF method = "opencv" THEN "MEDIUM (OpenCV)"
    ELSE "LOW"

HealthResponse(method) ==
    [Success(method, HealthQuality(method), NoImage, NoGrid, <<>>)
        EXCEPT !.body = "health"]

health_check ==
    /\ pc = "idle"
    /\ request' = [NoRequest EXCEPT !.endpoint = "/health"]
    /\ response' = HealthResponse(BG_REMOVAL_METHOD)
    /\ pc' = "responded"
    /\ UNCHANGED <<probes, BG_REMOVAL_METHOD>>

---------------------------------------------------------------------------
(* POST /remove-background, app.py 29-146.                                 *)

\* an RGBA image with img's colours and the given alpha at every pixel
WithAlpha(img, a) ==
    [img EXCEPT !.mode = "RGBA",
                !.px = [i \in DOMAIN img.px |->
                          <<img.px[i][1], img.px[i][2], img.px[i][3], a>>]]

\* rembg_remove(image): the external model; it may raise, else it returns
\* the picture with some alpha mask
remove_background_rembg(image, raises, mask) ==
    IF raises THEN [ok |-> FALSE, error |-> "rembg error", img |-> NoImage,
                    calls |-> <<"remove_background_rembg">>]
    ELSE [ok |-> TRUE, error |-> "", img |-> WithAlpha(image, mask),
          calls |-> <<"remove_background_rembg">>]

\* rect = (margin, margin, width - margin*2, height - margin*2), app.py 50
GrabCutRect(image) ==
    [x |-> GrabCutMargin, y |-> GrabCutMargin,
     w |-> image.width - GrabCutMargin * 2,
     h |-> image.height - GrabCutMargin * 2]

\* cv2.grabCut raises on a rectangle with no pixel in it; any step of the
\* try block may also raise for a reason of its own (raises)
ClassifierRaises(image, raises) ==
    \/ GrabCutRect(image).w <= 0
    \/ GrabCutRect(image).h <= 0
    \/ raises


\* no except branch: the classifier's error reaches the handler
remove_background_opencv_propagates(image, raises, mask) ==
    IF ClassifierRaises(image, raises)
    THEN [ok |-> FALSE, error |-> "cv2.error", img |-> NoImage,
          calls |-> <<"remove_background_opencv">>]
    ELSE [ok |-> TRUE, error |-> "", img |-> WithAlpha(image, mask),
          calls |-> <<"remove_background_opencv">>]

\* app.py 33-90: the try block's result, or the except branch's fallback
remove_background_opencv(image, raises, mask) ==
    IF ClassifierRaises(image, raises)
    THEN [ok |-> TRUE, error |-> "", img |-> Convert(image, "RGBA"),
          calls |-> <<"remove_background_opencv", "OpenCV processing error">>]
    ELSE [ok |-> TRUE, error |-> "", img |-> WithAlpha(image, mask),
          calls |-> <<"remove_background_opencv">>]

RemoveQuality(method) ==
    IF method = "rembg" THEN "HIGH (AI)" ELSE "MEDIUM (OpenCV)"

\* the handler's return value, app.py 102-146
RemoveBackgroundResponse(req, method, raises, mask) ==
    IF "image" \notin req.fields
    THEN Failure(400, "No image file provided", <<>>)
    ELSE
    LET opened == ImageOpen(req.image) IN
    IF ~opened.ok THEN Failure(500, opened.error, <<>>)
    ELSE
    LET input_image == IF opened.img.mode # "RGB"
                       THEN Convert(opened.img, "RGB") ELSE opened.img
    IN
    IF method \notin {"rembg", "opencv"}
    THEN Failure(500, "No background removal method available", <<>>)
    ELSE
    LET seg == IF method = "rembg"
               THEN remove_background_rembg(input_image, raises, mask)
               ELSE remove_background_opencv(input_image, raises, mask)
    IN
    IF ~seg.ok THEN Failure(500, seg.error, seg.calls)
    ELSE
    LET output_image == IF seg.img.mode # "RGBA"
                        THEN Convert(seg.img, "RGBA") ELSE seg.img
    IN Success(method, RemoveQuality(method), output_image, NoGrid, seg.calls)

RemoveRequests ==
    {[NoRequest EXCEPT !.endpoint = "/remove-background",
                       !.fields = {"image"}, !.image = p] : p \in FilePayloads}
        \cup {[NoRequest EXCEPT !.endpoint = "/remove-background"]}

remove_background ==
    /\ pc = "idle"
    /\ \E req \in RemoveRequests, raises \in BOOLEAN, mask \in MaskSamples :
          /\ request' = req
          /\ response' =
                RemoveBackgroundResponse(req, BG_REMOVAL_METHOD, raises, mask)
    /\ pc' = "responded"
    /\ UNCHANGED <<probes, BG_REMOVAL_METHOD>>


---------------------------------------------------------------------------
(* POST /change-background, app.py 148-195.                                *)

HexDigits == <<"0", "1", "2", "3", "4", "5", "6", "7", "8", "9",
               "A", "B", "C", "D", "E", "F">>

LowerHexDigits == <<"0", "1", "2", "3", "4", "5", "6", "7", "8", "9",
                    "a", "b", "c", "d", "e", "f">>

IsHexDigit(c) ==
    \E i \in DOMAIN HexDigits : HexDigits[i] = c \/ LowerHexDigits[i] = c

HexValue(c) ==
    (CHOOSE i \in DOMAIN HexDigits :
        HexDigits[i] = c \/ LowerHexDigits[i] = c) - 1

\* str.lstrip('#'): drops every leading '#'
RECURSIVE LStripHash(_)
LStripHash(s) ==
    IF s # <<>> /\ Head(s) = "#" THEN LStripHash(Tail(s)) ELSE s

\* s[i:j] for 0 <= i <= j: the slice is cut at the end of s
Slice(s, i, j) == SubSeq(s, i + 1, Min(j, Len(s)))

RECURSIVE HexNumber(_)
HexNumber(s) ==
    IF s = <<>> THEN 0
    ELSE 16 * HexNumber(SubSeq(s, 1, Len(s) - 1)) + HexValue(s[Len(s)])

\* int(s, 16) on text of digits and letters: ValueError on the empty string
\* and on any character that is no hex digit
IntBase16(s) ==
    IF s # <<>> /\ \A i \in DOMAIN s : IsHexDigit(s[i])
    THEN [ok |-> TRUE, value |-> HexNumber(s)]
    ELSE [ok |-> FALSE, value |-> 0]

\* app.py 167-168: tuple(int(bg_color[i:i+2], 16) for i in (0, 2, 4))
ParseColor(text) ==
    LET bg_color == LStripHash(text)
        r == IntBase16(Slice(bg_color, 0, 2))
        g == IntBase16(Slice(bg_color, 2, 4))
        b == IntBase16(Slice(bg_color, 4, 6))
    IN  IF r.ok /\ g.ok /\ b.ok
        THEN [ok |-> TRUE, rgb |-> <<r.value, g.value, b.value>>]
        ELSE [ok |-> FALSE, rgb |-> <<0, 0, 0>>]

\* ((a >> 8) + a) >> 8, Pillow's rounding division by 255
ShiftForDiv255(a) == (((a \div 256) + a) \div 256)


\* the two coefficients exchanged
CompositeChannel_swapped(s, sa, d, da) ==
    LET blend == da * (255 - sa)
        outa255 == sa * 255 + blend
        coef1 == (sa * 255 * 255 * 128) \div outa255
        coef2 == 255 * 128 - coef1
        tmp == s * coef2 + d * coef1
    IN  ShiftForDiv255(tmp + 128 * 128) \div 128

\* one channel of Image.alpha_composite(dst, src): integer "over" with 7
\* extra bits of precision
CompositeChannel(s, sa, d, da) ==
    LET blend == da * (255 - sa)
        outa255 == sa * 255 + blend
        coef1 == (sa * 255 * 255 * 128) \div outa255
        coef2 == 255 * 128 - coef1
        tmp == s * coef1 + d * coef2
    IN  ShiftForDiv255(tmp + 128 * 128) \div 128

\* a source pixel of alpha 0 copies the destination pixel
CompositePixel(dst, src) ==
    IF src[4] = 0 THEN dst
    ELSE <<CompositeChannel(src[1], src[4], dst[1], dst[4]),
           CompositeChannel(src[2], src[4], dst[2], dst[4]),
           CompositeChannel(src[3], src[4], dst[3], dst[4]),
           ShiftForDiv255(src[4] * 255 + dst[4] * (255 - src[4]) + 128)>>

\* Image.new('RGBA', size, (r, g, b, 255))
SolidImage(w, h, rgb) ==
    [mode |-> "RGBA", width |-> w, height |-> h,
     px |-> [i \in 1..(w * h) |-> <<rgb[1], rgb[2], rgb[3], 255>>]]

AlphaComposite(background, image) ==
    [image EXCEPT !.px = [i \in DOMAIN image.px |->
                            CompositePixel(background.px[i], image.px[i])]]

\* the handler's return value, app.py 149-195
ChangeBackgroundResponse(req) ==
    IF "image" \notin req.fields
    THEN Failure(400, "No image data provided", <<>>)
    ELSE
    LET decoded == B64Decode(StripDataUri(req.image)) IN
    IF ~decoded.ok THEN Failure(500, decoded.error, <<>>)
    ELSE
    LET opened == ImageOpen(decoded.bytes) IN
    IF ~opened.ok THEN Failure(500, opened.error, <<>>)
    ELSE
    LET image == Convert(opened.img, "RGBA")
        color == ParseColor(Get(req, "background_color", DefaultColor))
    IN
    IF ~color.ok THEN Failure(500, "ValueError", <<>>)
    ELSE
    LET background == SolidImage(image.width, image.height, color.rgb)
        result == Convert(AlphaComposite(background, image), "RGB")
    IN Success("", "", result, NoGrid, <<"alpha_composite">>)


\* characters the background_color texts are written with: two hex digits
\* and one letter that is no hex digit
ColorAlphabet == {"0", "F", "Z"}

ColorBodies == UNION {[1..n -> ColorAlphabet] : n \in 0..MaxColorLen}

ColorTexts == {p \o b : p \in {<<>>, <<"#">>}, b \in ColorBodies}

\* "#RRGGBB": a '#' and exactly six hex digits
WellFormedColor(text) ==
    /\ Len(text) = 7
    /\ text[1] = "#"
    /\ \A i \in 2..7 : IsHexDigit(text[i])

WellFormedColors == {t \in ColorTexts : WellFormedColor(t)}

\* 1 x 1 RGBA images over every 8-bit channel value, at three alphas
RampImages ==
    {[mode |-> "RGBA", width |-> 1, height |-> 1,
      px |-> << <<v, 255 - v, (v * 7) % 256, a>> >>] :
        v \in 0..255, a \in {0, 128, 255}}

RampColors == {<<"#", "0", "F", "F", "0", "0", "0">>,
               <<"#", "F", "F", "0", "0", "F", "0">>}

ReferencePayload == PngPayload(MkImage("RGBA", 1, 1, 0), TRUE)

ChangeRequest(p, cs) ==
    [NoRequest EXCEPT !.endpoint = "/change-background",
                      !.fields = {"image"} \cup
                                 (IF cs = <<>> THEN {} ELSE {"background_color"}),
                      !.image = p,
                      !.background_color = IF cs = <<>> THEN <<>> ELSE cs[1]]

\* every upload with every well-formed colour and with none, every colour
\* text with the reference upload, every ramp image with the ramp colours
ChangeRequests ==
    {ChangeRequest(p, <<c>>) : p \in JsonPayloads, c \in WellFormedColors}
        \cup {ChangeRequest(p, <<>>) : p \in JsonPayloads}
        \cup {ChangeRequest(ReferencePayload, <<c>>) : c \in ColorTexts}
        \cup {ChangeRequest(PngPayload(i, FALSE), <<c>>) :
                    i \in RampImages, c \in RampColors}
        \cup {[NoRequest EXCEPT !.endpoint = "/change-background"]}

change_background ==
    /\ pc = "idle"
    /\ \E req \in ChangeRequests :
          /\ request' = req
          /\ response' = ChangeBackgroundResponse(req)
    /\ pc' = "responded"
    /\ UNCHANGED <<probes, BG_REMOVAL_METHOD>>

---------------------------------------------------------------------------
(* POST /create-passport-grid, app.py 197-262.                             *)

\* photo.resize((w, h), LANCZOS): Pillow raises ValueError unless w, h >= 1
ResizeRaises(w, h) == w < 1 \/ h < 1

\* Image.new('RGB', (w, h), 'white'): Pillow raises ValueError on a
\* negative width or height
NewImageRaises(w, h) == w < 0 \/ h < 0


\* one margin per column, the closing margin forgotten
GridWidth_marginPerCell(photo_width, cols) ==
    (photo_width * cols) + (GridMargin * cols)

\* app.py 225-226
GridWidth(photo_width, cols) ==
    (photo_width * cols) + (GridMargin * (cols + 1))

GridHeight(photo_height, rows) ==
    (photo_height * rows) + (GridMargin * (rows + 1))


\* the step between columns without the margin
PasteX_noGap(col, photo_width) == GridMargin + (col * photo_width)

\* the step between rows without the margin
PasteY_noGap(row, photo_height) == GridMargin + (row * photo_height)

\* app.py 234-235
PasteX(col, photo_width) == GridMargin + (col * (photo_width + GridMargin))

PasteY(row, photo_height) == GridMargin + (row * (photo_height + GridMargin))

\* app.py 232-244: the pastes of the two nested range() loops, in order; the
\* k-th paste (from 0) is row k div cols, column k mod cols, and range(n) is
\* empty for n <= 0.  via_white: the RGBA photo went through a white
\* background first.
GridPastes(photo, rows, cols, photo_width, photo_height) ==
    IF rows <= 0 \/ cols <= 0 THEN <<>>
    ELSE [k \in 1..(rows * cols) |->
            LET row == (k - 1) \div cols
                col == (k - 1) % cols
            IN  [row |-> row, col |-> col,
                 x |-> PasteX(col, photo_width),
                 y |-> PasteY(row, photo_height),
                 w |-> photo_width, h |-> photo_height,
                 via_white |-> (photo.mode = "RGBA")]]

\* the handler's return value, app.py 198-262
CreatePassportGridResponse(req) ==
    IF "image" \notin req.fields
    THEN Failure(400, "No image data provided", <<>>)
    ELSE
    LET decoded == B64Decode(StripDataUri(req.image)) IN
    IF ~decoded.ok THEN Failure(500, decoded.error, <<>>)
    ELSE
    LET opened == ImageOpen(decoded.bytes) IN
    IF ~opened.ok THEN Failure(500, opened.error, <<>>)
    ELSE
    LET cols == Get(req, "cols", DefaultCols)
        rows == Get(req, "rows", DefaultRows)
        photo_width == Get(req, "photo_width", DefaultPhotoWidth)
        photo_height == Get(req, "photo_height", DefaultPhotoHeight)
    IN
    IF ResizeRaises(photo_width, photo_height)
    THEN Failure(500, "ValueError: height and width must be > 0", <<>>)
    ELSE
    LET grid_width == GridWidth(photo_width, cols)
        grid_height == GridHeight(photo_height, rows)
    IN
    IF NewImageRaises(grid_width, grid_height)
    THEN Failure(500, "ValueError: Width and height must be >= 0",
                 <<"resize">>)
    ELSE
    Success("", "", NoImage,
            [width |-> grid_width, height |-> grid_height,
             pastes |-> GridPastes(opened.img, rows, cols,
                                   photo_width, photo_height)],
            <<"resize", "Image.new">>)

\* a JSON field sent with value v, or left out (<<>>)
GridValues(max) == {<<>>} \cup {<<v>> : v \in (-1)..max}

GridRequest(p, c, r, w, h) ==
    [NoRequest EXCEPT
        !.endpoint = "/create-passport-grid",
        !.fields = {"image"} \cup (IF c = <<>> THEN {} ELSE {"cols"})
                             \cup (IF r = <<>> THEN {} ELSE {"rows"})
                             \cup (IF w = <<>> THEN {} ELSE {"photo_width"})
                             \cup (IF h = <<>> THEN {} ELSE {"photo_height"}),
        !.image = p,
        !.cols = IF c = <<>> THEN 0 ELSE c[1],
        !.rows = IF r = <<>> THEN 0 ELSE r[1],
        !.photo_width = IF w = <<>> THEN 0 ELSE w[1],
        !.photo_height = IF h = <<>> THEN 0 ELSE h[1]]

GridRequests ==
    {GridRequest(p, c, r, w, h) :
        p \in JsonPayloads, c \in GridValues(MaxGrid), r \in GridValues(MaxGrid),
        w \in GridValues(MaxPhoto), h \in GridValues(MaxPhoto)}
        \cup {[NoRequest EXCEPT !.endpoint = "/create-passport-grid"]}

create_passport_grid ==
    /\ pc = "idle"
    /\ \E req \in GridRequests :
          /\ request' = req
          /\ response' = CreatePassportGridResponse(req)
    /\ pc' = "responded"
    /\ UNCHANGED <<probes, BG_REMOVAL_METHOD>>

---------------------------------------------------------------------------
(* The worker.                                                             *)

\* the response is sent; the request's objects are discarded
Return ==
    /\ pc = "responded"
    /\ pc' = "idle"
    /\ request' = NoRequest
    /\ response' = NoResponse
    /\ UNCHANGED <<probes, BG_REMOVAL_METHOD>>

\* app.py 12: BG_REMOVAL_METHOD = None, nothing imported yet
Init ==
    /\ pc = "startup"
    /\ probes = <<>>
    /\ BG_REMOVAL_METHOD = "None"
    /\ request = NoRequest
    /\ response = NoResponse

Next ==
    \/ Startup
    \/ health_check
    \/ remove_background
    \/ change_background
    \/ create_passport_grid
    \/ Return

Spec == Init /\ [][Next]_vars


---------------------------------------------------------------------------
(* Properties.                                                             *)

Range(seq) == {seq[i] : i \in DOMAIN seq}

Answered(endpoint) == pc = "responded" /\ request.endpoint = endpoint

\* the upload is there and is a picture once unwrapped
Decodable ==
    /\ "image" \in request.fields
    /\ request.image.b64 = "ok"
    /\ request.image.content = "png"

\* the value a grid field stands for: the one sent, else the documented default
Sent(key, default) ==
    IF key \in request.fields THEN request[key] ELSE default

SentCols == Sent("cols", 4)
SentRows == Sent("rows", 4)
SentWidth == Sent("photo_width", 413)
SentHeight == Sent("photo_height", 531)

AllPositive ==
    SentCols > 0 /\ SentRows > 0 /\ SentWidth > 0 /\ SentHeight > 0

\* C1: after startup the selected method is 'rembg' whenever the rembg import
\* succeeded, 'opencv' exactly when it failed and the cv2 import succeeded,
\* 'none' exactly when both failed; and no step after startup (any request,
\* answered with success or error, in any order) changes it.
C1_BackendSelectedOnce ==
    /\ [](pc # "startup" =>
            /\ probes # <<>>
            /\ (probes[1].ok => BG_REMOVAL_METHOD = "rembg")
            /\ (BG_REMOVAL_METHOD = "opencv"
                    <=> (~probes[1].ok /\ probes[2].ok))
            /\ (BG_REMOVAL_METHOD = "none"
                    <=> (~probes[1].ok /\ ~probes[2].ok)))
    /\ [][pc # "startup" =>
            BG_REMOVAL_METHOD' = BG_REMOVAL_METHOD /\ probes' = probes]_vars

\* a failed /remove-background request has been answered under opencv
C1_Witness ==
    /\ Answered("/remove-background")
    /\ BG_REMOVAL_METHOD = "opencv"
    /\ response.body = "error"

\* C2: with method 'none', every /remove-background request that carries an
\* image file is answered 'No background removal method available', whatever
\* the file's bytes, and no segmentation function runs.
C2_UnavailableWhateverTheFile ==
    (Answered("/remove-background") /\ BG_REMOVAL_METHOD = "none"
        /\ "image" \in request.fields)
    => /\ response.body = "error"
       /\ response.error = "No background removal method available"
       /\ response.calls = <<>>

\* what the taxonomy calls an input problem, read off the request
ColorBody(text) ==
    IF text # <<>> /\ Head(text) = "#" THEN Tail(text) ELSE text

MalformedColor(text) ==
    \/ Len(ColorBody(text)) # 6
    \/ \E i \in DOMAIN ColorBody(text) : ~IsHexDigit(ColorBody(text)[i])

NonPositiveGrid ==
    SentCols <= 0 \/ SentRows <= 0 \/ SentWidth <= 0 \/ SentHeight <= 0

InputProblem ==
    \/ "image" \notin request.fields
    \/ ~Decodable
    \/ /\ request.endpoint = "/change-background"
       /\ "background_color" \in request.fields
       /\ MalformedColor(request.background_color)
    \/ /\ request.endpoint = "/create-passport-grid"
       /\ NonPositiveGrid

\* C3: an error answer of a POST endpoint has status 400 when the cause is an
\* input problem and 500 when it is a backend or processing problem.
C3_StatusFollowsCause ==
    (pc = "responded" /\ request.endpoint # "/health"
        /\ response.body = "error")
    => response.status = (IF InputProblem THEN 400 ELSE 500)

\* C4: a /create-passport-grid request with a non-positive rows, cols,
\* photo_width or photo_height is answered with an error, raised before the
\* photo is resized and before the canvas is allocated.
C4_NonPositiveRejectedFirst ==
    (Answered("/create-passport-grid") /\ Decodable /\ NonPositiveGrid)
    => /\ response.body = "error"
       /\ response.calls = <<>>

\* C5: a /change-background request whose background_color is malformed (a
\* character that is no hex digit, or not exactly 6 digits after the '#') is
\* answered with an error, never with a composited picture.
C5_MalformedColorRejected ==
    (Answered("/change-background") /\ Decodable
        /\ "background_color" \in request.fields
        /\ MalformedColor(request.background_color))
    => response.body = "error"

\* C6 as stated: for positive rows, cols, photo_width, photo_height the
\* canvas is cols*photo_width + (cols+1)*20 wide and rows*photo_height +
\* (rows+1)*20 high; with all four fields absent it is 1752 x 2144.
C6_CanvasSize_AsStated ==
    (Answered("/create-passport-grid") /\ Decodable /\ AllPositive)
    => /\ response.body = "success"
       /\ response.grid.width = SentCols * SentWidth + (SentCols + 1) * 20
       /\ response.grid.height = SentRows * SentHeight + (SentRows + 1) * 20
       /\ (request.fields = {"image"} =>
             response.grid.width = 1752 /\ response.grid.height = 2144)

\* C6 amended: the same, and with all four fields absent the canvas is
\* 1752 x 2224 (4*531 + 5*20 = 2224).
C6_CanvasSize ==
    (Answered("/create-passport-grid") /\ Decodable /\ AllPositive)
    => /\ response.body = "success"
       /\ response.grid.width = SentCols * SentWidth + (SentCols + 1) * 20
       /\ response.grid.height = SentRows * SentHeight + (SentRows + 1) * 20
       /\ (request.fields = {"image"} =>
             response.grid.width = 1752 /\ response.grid.height = 2224)

\* the default sheet has been produced
C6_Witness ==
    /\ Answered("/create-passport-grid")
    /\ request.fields = {"image"}
    /\ response.body = "success"
    /\ response.grid.width = 1752

\* C7: a produced grid holds exactly one paste for every (r, c) with
\* 0 <= r < rows, 0 <= c < cols and no other paste, the paste of (r, c) at
\* x = 20 + c*(photo_width+20), y = 20 + r*(photo_height+20); by default
\* cell (0,0) is at (20,20) and cell (1,1) at (453,571).
C7_OnePastePerCell ==
    (Answered("/create-passport-grid") /\ response.body = "success")
    => LET ps == response.grid.pastes
           At(r, c) == {k \in DOMAIN ps : ps[k].row = r /\ ps[k].col = c}
       IN  /\ \A k \in DOMAIN ps :
                /\ ps[k].row \in 0..(SentRows - 1)
                /\ ps[k].col \in 0..(SentCols - 1)
                /\ ps[k].x = 20 + ps[k].col * (SentWidth + 20)
                /\ ps[k].y = 20 + ps[k].row * (SentHeight + 20)
           /\ \A r \in 0..(SentRows - 1), c \in 0..(SentCols - 1) :
                Cardinality(At(r, c)) = 1
           /\ (request.fields = {"image"} =>
                 /\ \A k \in At(0, 0) : ps[k].x = 20 /\ ps[k].y = 20
                 /\ \A k \in At(1, 1) : ps[k].x = 453 /\ ps[k].y = 571)

\* the default sheet with its sixteen pastes
C7_Witness ==
    /\ Answered("/create-passport-grid")
    /\ request.fields = {"image"}
    /\ response.body = "success"
    /\ Len(response.grid.pastes) = 16

ColorOf(text) ==
    <<16 * HexValue(text[2]) + HexValue(text[3]),
      16 * HexValue(text[4]) + HexValue(text[5]),
      16 * HexValue(text[6]) + HexValue(text[7])>>

\* the alpha Pillow gives the i-th pixel of the upload once it is RGBA
InputAlpha(img, i) == IF img.mode = "RGBA" THEN img.px[i][4] ELSE 255

\* C9: for a well-formed background colour (or none, meaning white) the
\* picture returned has the input's size and no alpha channel; a pixel whose
\* input alpha is 255 keeps the input's RGB values, a pixel whose input alpha
\* is 0 has the background colour.
C9_CompositeExtremes ==
    (Answered("/change-background") /\ Decodable
        /\ ("background_color" \in request.fields
               => WellFormedColor(request.background_color)))
    => LET in == request.image.img
           out == response.image
           bg == IF "background_color" \in request.fields
                 THEN ColorOf(request.background_color)
                 ELSE <<255, 255, 255>>
       IN  /\ response.body = "success"
           /\ out.mode = "RGB"
           /\ out.width = in.width /\ out.height = in.height
           /\ DOMAIN out.px = DOMAIN in.px
           /\ \A i \in DOMAIN in.px :
                 /\ Len(out.px[i]) = 3
                 /\ InputAlpha(in, i) = 255 =>
                       out.px[i] = <<in.px[i][1], in.px[i][2], in.px[i][3]>>
                 /\ InputAlpha(in, i) = 0 => out.px[i] = bg

\* an opaque and a transparent pixel composited over a colour that is not white
C9_Witness ==
    /\ Answered("/change-background")
    /\ response.body = "success"
    /\ "background_color" \in request.fields
    /\ request.background_color # DefaultColor
    /\ request.image.img.mode = "RGBA"
    /\ \E i, j \in DOMAIN request.image.img.px :
          /\ request.image.img.px[i][4] = 255
          /\ request.image.img.px[j][4] = 0

\* C10: for positive rows, cols, photo_width, photo_height every pasted
\* rectangle lies inside the canvas, no two overlap, neighbours are 20 pixels
\* apart, and the outermost cells are 20 pixels from the canvas edges.
C10_GridLayout ==
    (Answered("/create-passport-grid") /\ Decodable /\ AllPositive)
    => LET g == response.grid
           ps == g.pastes
       IN  /\ response.body = "success"
           /\ Len(ps) = SentRows * SentCols
           /\ \A k \in DOMAIN ps :
                /\ ps[k].w = SentWidth /\ ps[k].h = SentHeight
                /\ 0 <= ps[k].x /\ ps[k].x + ps[k].w <= g.width
                /\ 0 <= ps[k].y /\ ps[k].y + ps[k].h <= g.height
                /\ ps[k].col = 0 => ps[k].x = 20
                /\ ps[k].row = 0 => ps[k].y = 20
                /\ ps[k].col = SentCols - 1 =>
                      g.width - (ps[k].x + ps[k].w) = 20
                /\ ps[k].row = SentRows - 1 =>
                      g.height - (ps[k].y + ps[k].h) = 20
           /\ \A k, m \in DOMAIN ps :
                /\ k # m =>
                      \/ ps[k].x + ps[k].w <= ps[m].x
                      \/ ps[m].x + ps[m].w <= ps[k].x
                      \/ ps[k].y + ps[k].h <= ps[m].y
                      \/ ps[m].y + ps[m].h <= ps[k].y
                /\ (ps[m].row = ps[k].row /\ ps[m].col = ps[k].col + 1) =>
                      ps[m].x - (ps[k].x + ps[k].w) = 20
                /\ (ps[m].col = ps[k].col /\ ps[m].row = ps[k].row + 1) =>
                      ps[m].y - (ps[k].y + ps[k].h) = 20

\* a sheet of at least two rows and two columns has been produced
C10_Witness ==
    /\ Answered("/create-passport-grid")
    /\ AllPositive
    /\ response.body = "success"
    /\ \E k \in DOMAIN response.grid.pastes :
          response.grid.pastes[k].row = 1 /\ response.grid.pastes[k].col = 1

===========================================================================
